---- MODULE Spec2Model ----
(***************************************************************************)
(* The interactive loop of caipi.py (function caipi) as a state machine.   *)
(* One action per statement group of the loop body; the collaborators     *)
(* (learner.select_query, learner.predict, problem.explain,                *)
(* problem.query_corrections, problem.eval) are imported from the caipi    *)
(* package and modelled by their contracts as nondeterministic choices.    *)
(***************************************************************************)
EXTENDS Integers, Sequences, FiniteSets, TLC

\* ---------------------------------------------------------------- bounds
\* Largest number of training examples; rows of the problem are 0..NIdx,
\* row 0 is never a training example (it stands for a held-out row).
NIdx == 3
\* Largest max_iters tried.
MaxIters == 2
\* Largest number of synthetic rows one query_corrections call adds.
MaxNewCorr == 1
\* Number of rows of the problem handed to _subsample.
MaxRows == 6
\* args.n_folds in eval_interactive.
NFolds == 2

\* ------------------------------------------------------ program constants
\* len(problem.class_names): the newsgroups problem is built with two classes.
NClasses == 2

\* np.seterr(all='raise'): a floating-point division by zero raises.
seterr_all_raise == TRUE

Examples == 0 .. NIdx
Classes == 0 .. (NClasses - 1)
\* -E/--start-expl-at: -1 disables explanations, else the first round.
StartExplChoices == {-1, 0, 1}
\* -e/--eval-iters.
EvalItersChoices == {1, 2}

\* Optional values (X_corr, y_corr are None until the first correction call).
None == [none |-> TRUE, val |-> << >>]
Some(v) == [none |-> FALSE, val |-> v]

VARIABLES
    y,                \* problem.y, one label per row of the problem
    explainable,      \* problem.explainable, the part the loop can read
    train_examples,   \* list of int
    known_examples,   \* list of int, appended to by the loop
    known0,           \* known_examples as passed by the caller (history)
    max_iters, start_expl_at, eval_iters,
    pc,               \* position in caipi
    error,            \* exception that ended the run, "none" otherwise
    t,                \* loop index of the current round
    cands,            \* argument handed to select_query in this round
    i,                \* selected query index, -1 before the first selection
    explain,          \* 0 <= start_expl_at <= t
    pred_y, pred_expl, true_y,
    X_corr, y_corr,   \* correction accumulator
    X_known, y_known, \* dataset assembled for the fit of this round
    balance,          \* <<max count, min count>> of the last balance computed
    model,            \* rows the learner was last fitted on
    perfs, params,    \* returned traces
    calls,            \* collaborator calls of the current round, in order
    passive,          \* the locals of eval_passive
    sub,              \* the locals of _subsample
    driver,           \* the locals of eval_interactive
    mojito            \* the arguments and locals of mojito (mojito.py)

\* The problem, the arguments and the locals of caipi.
caipi_vars == << y, explainable, train_examples, known_examples, known0,
                 max_iters, start_expl_at, eval_iters, pc, error, t, cands, i,
                 explain, pred_y, pred_expl, true_y, X_corr, y_corr, X_known,
                 y_known, balance, model, perfs, params, calls >>

\* The locals of the other functions of caipi.py and of mojito.py.
other_vars == << passive, sub, driver, mojito >>

vars == << caipi_vars, other_vars >>

\* ---------------------------------------------------------------- helpers
Range(s) == { s[j] : j \in 1 .. Len(s) }

Iota(n) == [ j \in 1 .. n |-> j ]

IsPrefix(s, r) == Len(s) <= Len(r) /\ \A j \in 1 .. Len(s) : s[j] = r[j]

NoDup(s) == \A j, k \in 1 .. Len(s) : s[j] = s[k] => j = k

\* vstack / hstack of caipi.utils: None entries are skipped.
stack(opt, rows) == IF opt.none THEN rows ELSE opt.val \o rows

\* problem.y[known_examples]
Labels(idx) == [ j \in 1 .. Len(idx) |-> y[idx[j]] ]

\* len(y_known[y_known == label])
Count(labels, label) == Cardinality({ j \in 1 .. Len(labels) : labels[j] = label })

SetMax(S) == CHOOSE m \in S : \A x \in S : x <= m
SetMin(S) == CHOOSE m \in S : \A x \in S : m <= x

\* per_class, as counts (every entry is divided by the same len(y_known))
per_class(labels) == { Count(labels, label) : label \in Classes }

\* explain_gate without its lower bound
explain_gate_no_floor(start, round) == start <= round

\* explain_gate starting one round late
explain_gate_late(start, round) == 0 <= start /\ start < round

\* `0 <= start_expl_at <= t`
explain_gate(start, round) == 0 <= start /\ start <= round

\* do_eval counting rounds from one
do_eval_from_one(round, every) == (round + 1) % every = 0

\* `t % eval_iters == 0`
do_eval(round, every) == round % every = 0

\* n_corrections that never looks at the accumulator
n_corrections_zero(yc) == 0

\* `len(y_corr) if y_corr is not None else 0`
n_corrections(yc) == IF yc.none THEN 0 ELSE Len(yc.val)

\* all_known with a strict comparison
all_known_strict(known, train) == Len(known) > Len(train)

\* `len(known_examples) >= len(train_examples)`
all_known(known, train) == Len(known) >= Len(train)

\* query_ok without the `not in known_examples` half
query_ok_train_only(q, train, known) == q \in Range(train)

\* query_ok without the `in train_examples` half
query_ok_unknown_only(q, train, known) == q \notin Range(known)

\* `i in train_examples and i not in known_examples`
query_ok(q, train, known) == q \in Range(train) /\ q \notin Range(known)

\* set(train_examples) - set(known_examples)
unknown_examples(train, known) == Range(train) \ Range(known)

\* learner.select_query(problem, candidates): the strategy is opaque, any row
\* of the problem may come back.
select_query(candidates) == Examples

\* An empty pool leaves the strategy nothing to pick: it may raise.
select_query_raises(candidates) == candidates = {}

\* problem.query_corrections: the accumulator comes back unchanged or with
\* k more rows derived from example q, all labelled c; rows and labels stay
\* aligned.
query_corrections(Xc, yc, q) ==
    { << Xc, yc >> } \cup
    { << Some(stack(Xc, [ j \in 1 .. k |-> 0 - q ])),
         Some(stack(yc, [ j \in 1 .. k |-> c ])) >> :
        k \in 0 .. MaxNewCorr, c \in Classes }

\* Locals of a function that is not being run.
NotRunning == [ pc |-> "not running" ]

\* ------------------------------------------------------------------- Init
Init ==
    /\ \E n \in 1 .. NIdx, k \in 1 .. NIdx :
          /\ k <= n
          /\ train_examples = Iota(n)
          /\ known_examples = Iota(k)
          /\ known0 = Iota(k)
          \* labels of rows outside train_examples are never read: fixed at 0
          /\ y \in { f \in [ Examples -> Classes ] :
                        \A j \in Examples \ (1 .. n) : f[j] = 0 }
          \* line 239 only reads explainable inside the unknown examples
          /\ explainable \in SUBSET ((1 .. n) \ (1 .. k))
    /\ max_iters \in 0 .. MaxIters
    /\ start_expl_at \in StartExplChoices
    /\ eval_iters \in EvalItersChoices
    /\ pc = "start"
    /\ error = "none"
    /\ t = 0
    /\ cands = {}
    /\ i = -1
    /\ explain = FALSE
    /\ pred_y = -1
    /\ pred_expl = "None"
    /\ true_y = -1
    /\ X_corr = None
    /\ y_corr = None
    /\ X_known = << >>
    /\ y_known = << >>
    /\ balance = << 0, 0 >>
    /\ model = << >>
    /\ perfs = << >>
    /\ params = << >>
    /\ calls = << >>
    /\ passive = NotRunning
    /\ sub = NotRunning
    /\ driver = NotRunning
    /\ mojito = NotRunning

\* ---------------------------------------------------------------- actions
\* caipi.py:226-232  select_model and fit on the known examples, empty traces
InitialFit ==
    /\ pc = "start"
    /\ model' = known_examples
    /\ perfs' = << >>
    /\ params' = << >>
    /\ X_corr' = None
    /\ y_corr' = None
    /\ pc' = "for"
    /\ UNCHANGED << y, explainable, train_examples, known_examples, known0,
                    max_iters, start_expl_at, eval_iters, error, t, cands, i,
                    explain, pred_y, pred_expl, true_y, X_known, y_known,
                    balance, calls >>
    /\ UNCHANGED other_vars

\* LoopHead running the body once more than range(max_iters) allows
LoopHead_inclusive ==
    /\ pc = "for"
    /\ pc' = IF t <= max_iters /\ ~all_known(known_examples, train_examples)
             THEN "select" ELSE "return"
    /\ UNCHANGED << y, explainable, train_examples, known_examples, known0,
                    max_iters, start_expl_at, eval_iters, error, t, cands, i,
                    explain, pred_y, pred_expl, true_y, X_corr, y_corr,
                    X_known, y_known, balance, model, perfs, params, calls >>
    /\ UNCHANGED other_vars

\* caipi.py:233-236  for t in range(max_iters); break when everything is known
LoopHead ==
    /\ pc = "for"
    /\ pc' = IF t < max_iters /\ ~all_known(known_examples, train_examples)
             THEN "select" ELSE "return"
    /\ UNCHANGED << y, explainable, train_examples, known_examples, known0,
                    max_iters, start_expl_at, eval_iters, error, t, cands, i,
                    explain, pred_y, pred_expl, true_y, X_corr, y_corr,
                    X_known, y_known, balance, model, perfs, params, calls >>
    /\ UNCHANGED other_vars

\* caipi.py:238-239  the candidate pool and the query selection
SelectQuery ==
    /\ pc = "select"
    /\ cands' = unknown_examples(train_examples, known_examples) \cap explainable
    /\ calls' = << "select_query" >>
    /\ \/ /\ i' \in select_query(cands')
          /\ pc' = "assert"
          /\ error' = error
       \/ /\ select_query_raises(cands')
          /\ i' = i
          /\ pc' = "aborted"
          /\ error' = "SelectQueryError"
    /\ UNCHANGED << y, explainable, train_examples, known_examples, known0,
                    max_iters, start_expl_at, eval_iters, t, explain, pred_y,
                    pred_expl, true_y, X_corr, y_corr, X_known, y_known,
                    balance, model, perfs, params >>
    /\ UNCHANGED other_vars

\* AssertQuery that reports the failed check and carries on
AssertQuery_carries_on ==
    /\ pc = "assert"
    /\ pc' = "predict"
    /\ error' = IF query_ok(i, train_examples, known_examples)
                THEN error ELSE "AssertionError"
    /\ UNCHANGED << y, explainable, train_examples, known_examples, known0,
                    max_iters, start_expl_at, eval_iters, t, cands, i, explain,
                    pred_y, pred_expl, true_y, X_corr, y_corr, X_known,
                    y_known, balance, model, perfs, params, calls >>
    /\ UNCHANGED other_vars

\* caipi.py:240  assert i in train_examples and i not in known_examples
AssertQuery ==
    /\ pc = "assert"
    /\ IF query_ok(i, train_examples, known_examples)
       THEN pc' = "predict" /\ error' = error
       ELSE pc' = "aborted" /\ error' = "AssertionError"
    /\ UNCHANGED << y, explainable, train_examples, known_examples, known0,
                    max_iters, start_expl_at, eval_iters, t, cands, i, explain,
                    pred_y, pred_expl, true_y, X_corr, y_corr, X_known,
                    y_known, balance, model, perfs, params, calls >>
    /\ UNCHANGED other_vars

\* caipi.py:243-245  explanation gate and prediction on the query
Predict ==
    /\ pc = "predict"
    /\ explain' = explain_gate(start_expl_at, t)
    /\ pred_y' \in Classes
    /\ calls' = Append(calls, "predict")
    /\ pc' = "explain"
    /\ UNCHANGED << y, explainable, train_examples, known_examples, known0,
                    max_iters, start_expl_at, eval_iters, error, t, cands, i,
                    pred_expl, true_y, X_corr, y_corr, X_known, y_known,
                    balance, model, perfs, params >>
    /\ UNCHANGED other_vars

\* caipi.py:246-247  problem.explain(...) if explain else None
Explain ==
    /\ pc = "explain"
    /\ IF explain
       THEN pred_expl' = "expl" /\ calls' = Append(calls, "explain")
       ELSE pred_expl' = "None" /\ calls' = calls
    /\ pc' = "label"
    /\ UNCHANGED << y, explainable, train_examples, known_examples, known0,
                    max_iters, start_expl_at, eval_iters, error, t, cands, i,
                    explain, pred_y, true_y, X_corr, y_corr, X_known, y_known,
                    balance, model, perfs, params >>
    /\ UNCHANGED other_vars

\* QueryLabel followed directly by the dataset assembly
QueryLabel_skips_corrections ==
    /\ pc = "label"
    /\ true_y' = y[i]
    /\ known_examples' = Append(known_examples, i)
    /\ calls' = Append(calls, "query_label")
    /\ pc' = "assemble"
    /\ UNCHANGED << y, explainable, train_examples, known0, max_iters,
                    start_expl_at, eval_iters, error, t, cands, i, explain,
                    pred_y, pred_expl, X_corr, y_corr, X_known, y_known,
                    balance, model, perfs, params >>
    /\ UNCHANGED other_vars

\* caipi.py:249-250  oracle label, then the index joins known_examples
QueryLabel ==
    /\ pc = "label"
    /\ true_y' = y[i]
    /\ known_examples' = Append(known_examples, i)
    /\ calls' = Append(calls, "query_label")
    /\ pc' = "correct"
    /\ UNCHANGED << y, explainable, train_examples, known0, max_iters,
                    start_expl_at, eval_iters, error, t, cands, i, explain,
                    pred_y, pred_expl, X_corr, y_corr, X_known, y_known,
                    balance, model, perfs, params >>
    /\ UNCHANGED other_vars

\* caipi.py:252-255  corrections, only when explaining
QueryCorrections ==
    /\ pc = "correct"
    /\ IF explain
       THEN /\ \E acc \in query_corrections(X_corr, y_corr, i) :
                  X_corr' = acc[1] /\ y_corr' = acc[2]
            /\ calls' = Append(calls, "query_corrections")
       ELSE UNCHANGED << X_corr, y_corr, calls >>
    /\ pc' = "assemble"
    /\ UNCHANGED << y, explainable, train_examples, known_examples, known0,
                    max_iters, start_expl_at, eval_iters, error, t, cands, i,
                    explain, pred_y, pred_expl, true_y, X_known, y_known,
                    balance, model, perfs, params >>
    /\ UNCHANGED other_vars

\* Assemble that leaves the freshly labelled example out of the dataset
Assemble_without_query ==
    /\ pc = "assemble"
    /\ X_known' = stack(X_corr, SubSeq(known_examples, 1,
                                       Len(known_examples) - 1))
    /\ y_known' = stack(y_corr, Labels(SubSeq(known_examples, 1,
                                              Len(known_examples) - 1)))
    /\ balance' = << SetMax(per_class(y_known')), SetMin(per_class(y_known')) >>
    /\ IF SetMin(per_class(y_known')) = 0 /\ seterr_all_raise
       THEN pc' = "aborted" /\ error' = "FloatingPointError"
       ELSE pc' = "fit" /\ error' = error
    /\ UNCHANGED << y, explainable, train_examples, known_examples, known0,
                    max_iters, start_expl_at, eval_iters, t, cands, i, explain,
                    pred_y, pred_expl, true_y, X_corr, y_corr, model, perfs,
                    params, calls >>
    /\ UNCHANGED other_vars

\* caipi.py:257-262  dataset assembly and class balance
Assemble ==
    /\ pc = "assemble"
    /\ X_known' = stack(X_corr, known_examples)
    /\ y_known' = stack(y_corr, Labels(known_examples))
    /\ balance' = << SetMax(per_class(y_known')), SetMin(per_class(y_known')) >>
    /\ IF SetMin(per_class(y_known')) = 0 /\ seterr_all_raise
       THEN pc' = "aborted" /\ error' = "FloatingPointError"
       ELSE pc' = "fit" /\ error' = error
    /\ UNCHANGED << y, explainable, train_examples, known_examples, known0,
                    max_iters, start_expl_at, eval_iters, t, cands, i, explain,
                    pred_y, pred_expl, true_y, X_corr, y_corr, model, perfs,
                    params, calls >>
    /\ UNCHANGED other_vars

\* caipi.py:263-264  retrain and record the parameters
Fit ==
    /\ pc = "fit"
    /\ model' = X_known
    /\ params' = Append(params, X_known)
    /\ calls' = Append(calls, "fit")
    /\ pc' = "eval"
    /\ UNCHANGED << y, explainable, train_examples, known_examples, known0,
                    max_iters, start_expl_at, eval_iters, error, t, cands, i,
                    explain, pred_y, pred_expl, true_y, X_corr, y_corr,
                    X_known, y_known, balance, perfs >>
    /\ UNCHANGED other_vars

\* Eval recording a performance entry only in the rounds that evaluate
Eval_records_evaluated_rounds ==
    /\ pc = "eval"
    /\ perfs' = IF do_eval(t, eval_iters)
                THEN Append(perfs, [ t |-> t,
                                     eval |-> TRUE,
                                     n_corrections |-> n_corrections(y_corr) ])
                ELSE perfs
    /\ calls' = Append(calls, "eval")
    /\ t' = t + 1
    /\ pc' = "for"
    /\ UNCHANGED << y, explainable, train_examples, known_examples, known0,
                    max_iters, start_expl_at, eval_iters, error, cands, i,
                    explain, pred_y, pred_expl, true_y, X_corr, y_corr,
                    X_known, y_known, balance, model, params >>
    /\ UNCHANGED other_vars

\* caipi.py:266-282  evaluation, performance record, next loop index
Eval ==
    /\ pc = "eval"
    /\ perfs' = Append(perfs, [ t |-> t,
                                eval |-> do_eval(t, eval_iters),
                                n_corrections |-> n_corrections(y_corr) ])
    /\ calls' = Append(calls, "eval")
    /\ t' = t + 1
    /\ pc' = "for"
    /\ UNCHANGED << y, explainable, train_examples, known_examples, known0,
                    max_iters, start_expl_at, eval_iters, error, cands, i,
                    explain, pred_y, pred_expl, true_y, X_corr, y_corr,
                    X_known, y_known, balance, model, params >>
    /\ UNCHANGED other_vars

Next ==
    \/ InitialFit
    \/ LoopHead
    \/ SelectQuery
    \/ AssertQuery
    \/ Predict
    \/ Explain
    \/ QueryLabel
    \/ QueryCorrections
    \/ Assemble
    \/ Fit
    \/ Eval

Spec == Init /\ [][Next]_vars

\* Every statement of caipi is executed once control reaches it.
FairSpec == Spec /\ WF_vars(Next)

\* ------------------------------------------------- eval_passive (84-187)
\* caipi is not being run: its arguments and locals hold nothing.
CaipiNotRunning ==
    /\ train_examples = << >>
    /\ known_examples = << >>
    /\ known0 = << >>
    /\ max_iters = 0
    /\ start_expl_at = -1
    /\ eval_iters = 1
    /\ pc = "not running"
    /\ error = "none"
    /\ t = 0
    /\ cands = {}
    /\ i = -1
    /\ explain = FALSE
    /\ pred_y = -1
    /\ pred_expl = "None"
    /\ true_y = -1
    /\ X_corr = None
    /\ y_corr = None
    /\ X_known = << >>
    /\ y_known = << >>
    /\ balance = << 0, 0 >>
    /\ model = << >>
    /\ perfs = << >>
    /\ params = << >>
    /\ calls = << >>

\* The try block of lines 121-137 ends in one of these ways: a failure while
\* building or vectorizing the documents (before the fit), a failure inside
\* learner.fit, a failure of the eval after the fit, or no failure.
DocOutcomes == { "failed before fit", "failed in fit", "failed in eval", "ok" }

\* labels_vary that takes every correction set for non-degenerate
labels_vary_always(labels) == TRUE

\* `np.min(y_corr) != np.max(y_corr)`
labels_vary(labels) == SetMin(Range(labels)) # SetMax(Range(labels))

InitPassive ==
    /\ CaipiNotRunning
    /\ sub = NotRunning
    /\ driver = NotRunning
    /\ mojito = NotRunning
    /\ y = [ j \in Examples |-> 0 ]
    /\ \E n \in 1 .. NIdx :
          /\ explainable \in SUBSET (1 .. n)
          /\ passive = [ pc |-> "fit train",
                         error |-> "none",
                         train_examples |-> Iota(n),
                         learner |-> "unfitted",
                         train_params |-> "None",
                         corr_params |-> "None",
                         train_corr_params |-> "None",
                         docs |-> "not tried",
                         todo |-> {},
                         used |-> {},
                         X_corr |-> None,
                         y_corr |-> None,
                         evals |-> << >>,
                         dumped |-> << >> ]

\* caipi.py:102-107  fit on the full training set
PassiveFitTrain ==
    /\ passive.pc = "fit train"
    /\ passive' = [ passive EXCEPT !.learner = "train",
                                   !.train_params = "train",
                                   !.pc = "eval train" ]
    /\ UNCHANGED << caipi_vars, sub, driver, mojito >>

\* caipi.py:109-119  two evaluations of the model fitted on the training set
PassiveEvalTrain ==
    /\ passive.pc = "eval train"
    /\ passive' = [ passive EXCEPT
                      !.evals = @ \o << << "train", passive.learner >>,
                                        << "train2", passive.learner >> >>,
                      !.pc = "expl as doc" ]
    /\ UNCHANGED << caipi_vars, sub, driver, mojito >>

\* PassiveExplAsDoc with a handler that puts back the model of the training
\* set whenever the path fails
PassiveExplAsDoc_restores_train ==
    /\ passive.pc = "expl as doc"
    /\ \E outcome \in DocOutcomes :
          passive' = [ passive EXCEPT
                         !.docs = outcome,
                         !.learner = IF outcome = "ok" THEN "docs" ELSE @,
                         !.evals = IF outcome = "ok"
                                   THEN Append(@, << "train", "docs" >>)
                                   ELSE @,
                         !.pc = "collect" ]
    /\ UNCHANGED << caipi_vars, sub, driver, mojito >>

\* caipi.py:121-137  try: documents, transform, fit, eval; except: pass
\* A fit that raises leaves the learner either as it was or refitted.
PassiveExplAsDoc ==
    /\ passive.pc = "expl as doc"
    /\ \E outcome \in DocOutcomes :
          \E left \in IF outcome = "failed before fit" THEN { passive.learner }
                      ELSE IF outcome = "failed in fit"
                           THEN { passive.learner, "docs" }
                           ELSE { "docs" } :
             passive' = [ passive EXCEPT
                            !.docs = outcome,
                            !.learner = left,
                            !.evals = IF outcome = "ok"
                                      THEN Append(@, << "train", "docs" >>)
                                      ELSE @,
                            !.pc = "collect" ]
    /\ UNCHANGED << caipi_vars, sub, driver, mojito >>

\* caipi.py:139-144  empty accumulator, the explainable training examples
PassiveStartCollect ==
    /\ passive.pc = "collect"
    /\ passive' = [ passive EXCEPT
                      !.X_corr = None,
                      !.y_corr = None,
                      !.todo = Range(passive.train_examples) \cap explainable,
                      !.pc = "correcting" ]
    /\ UNCHANGED << caipi_vars, sub, driver, mojito >>

\* caipi.py:145-150  one iteration over the set: predict, explain, correct
PassiveCorrectOne ==
    /\ passive.pc = "correcting"
    /\ passive.todo # {}
    /\ \E q \in passive.todo :
          \E acc \in query_corrections(passive.X_corr, passive.y_corr, q) :
             passive' = [ passive EXCEPT
                            !.X_corr = acc[1],
                            !.y_corr = acc[2],
                            !.used = @ \cup { passive.learner },
                            !.todo = @ \ { q } ]
    /\ UNCHANGED << caipi_vars, sub, driver, mojito >>

\* caipi.py:152-155  nothing collected: return without a dump
PassiveCheckNone ==
    /\ passive.pc = "correcting"
    /\ passive.todo = {}
    /\ passive' = [ passive EXCEPT
                      !.pc = IF passive.X_corr.none THEN "return"
                             ELSE "corr only" ]
    /\ UNCHANGED << caipi_vars, sub, driver, mojito >>

\* caipi.py:157-166  retraining on the corrections alone, unless degenerate;
\* np.min of an empty array raises ValueError
PassiveCorrOnly ==
    /\ passive.pc = "corr only"
    /\ passive' =
          IF passive.y_corr.val = << >>
          THEN [ passive EXCEPT !.pc = "aborted", !.error = "ValueError" ]
          ELSE IF labels_vary(passive.y_corr.val)
               THEN [ passive EXCEPT
                        !.learner = "corr",
                        !.corr_params = "corr",
                        !.evals = Append(@, << "corr", "corr" >>),
                        !.pc = "train+corr" ]
               ELSE [ passive EXCEPT !.pc = "train+corr" ]
    /\ UNCHANGED << caipi_vars, sub, driver, mojito >>

\* caipi.py:168-177  retraining on the training set plus the corrections
PassiveTrainCorr ==
    /\ passive.pc = "train+corr"
    /\ passive' = [ passive EXCEPT
                      !.learner = "train+corr",
                      !.train_corr_params = "train+corr",
                      !.evals = Append(@, << "train+corr", "train+corr" >>),
                      !.pc = "dump" ]
    /\ UNCHANGED << caipi_vars, sub, driver, mojito >>

\* caipi.py:179-187  the three parameter snapshots are dumped
PassiveDump ==
    /\ passive.pc = "dump"
    /\ passive' = [ passive EXCEPT
                      !.dumped = << [ w_train |-> passive.train_params,
                                      w_corr |-> passive.corr_params,
                                      w_both |-> passive.train_corr_params ] >>,
                      !.pc = "return" ]
    /\ UNCHANGED << caipi_vars, sub, driver, mojito >>

NextPassive ==
    \/ PassiveFitTrain
    \/ PassiveEvalTrain
    \/ PassiveExplAsDoc
    \/ PassiveStartCollect
    \/ PassiveCorrectOne
    \/ PassiveCheckNone
    \/ PassiveCorrOnly
    \/ PassiveTrainCorr
    \/ PassiveDump

SpecPassive == InitPassive /\ [][NextPassive]_vars

\* --------------------------------------------------- _subsample (65-81)
\* prop values tried, as <<numerator, denominator>>: 0, 0.5, 1 (proportions)
\* and 4, 4.5, -1 (anything outside [0, 1] is taken as a count).
PropChoices == { << 0, 1 >>, << 1, 2 >>, << 1, 1 >>, << 4, 1 >>, << 9, 2 >>,
                 << 0 - 1, 1 >> }

SubRows == 1 .. MaxRows

\* round(a / b) for a >= 0, b > 0: Python 3 rounds halves to the even integer
round_half_even(a, b) ==
    LET q == a \div b
        r == a % b
    IN  IF 2 * r < b THEN q
        ELSE IF 2 * r > b THEN q + 1
        ELSE IF q % 2 = 0 THEN q ELSE q + 1

\* int(a / b): truncation towards zero
int_trunc(a, b) == IF a >= 0 THEN a \div b ELSE 0 - ((0 - a) \div b)

Max2(a, b) == IF a >= b THEN a ELSE b
Min2(a, b) == IF a <= b THEN a ELSE b

\* n_sampled_per_class without the floor of 3
n_sampled_per_class_no_floor(n_examples, prop, n_classes) ==
    IF 0 <= prop[1] /\ prop[1] <= prop[2]
    THEN round_half_even(n_examples * prop[1], prop[2]) \div n_classes
    ELSE int_trunc(prop[1], prop[2])

\* lines 69-73
n_sampled_per_class(n_examples, prop, n_classes) ==
    IF 0 <= prop[1] /\ prop[1] <= prop[2]
    THEN Max2(round_half_even(n_examples * prop[1], prop[2]) \div n_classes, 3)
    ELSE Max2(int_trunc(prop[1], prop[2]), 3)

\* sorted(set(problem.y))
SortedSeq(S) ==
    [ j \in 1 .. Cardinality(S) |->
        CHOOSE x \in S : Cardinality({ z \in S : z < x }) = j - 1 ]

\* [i for i in examples if problem.y[i] == label]
examples_of(examples, label) == SelectSeq(examples, LAMBDA r : y[r] = label)

\* examples_y[pi[:n]] for every permutation pi: the sequences of
\* min(n, len(examples_y)) distinct members of examples_y
RECURSIVE Arrangements(_, _)
Arrangements(S, len) ==
    IF len = 0 THEN { << >> }
    ELSE UNION { { << x >> \o r : r \in Arrangements(S \ { x }, len - 1) } :
                 x \in S }

FirstOfPermutation(examples_y, n) ==
    Arrangements(Range(examples_y), Min2(n, Len(examples_y)))

\* The labellings tried: class 0 on the first rows, class 1 on the rest (rows
\* are interchangeable, only the class sizes matter).
SortedLabellings ==
    { [ r \in SubRows |-> IF r <= a THEN 0 ELSE 1 ] : a \in 0 .. MaxRows }

\* The example lists tried: the subsets of the rows, in ascending order.
ExampleLists == { SortedSeq(S) : S \in SUBSET SubRows }

InitSubsample ==
    /\ CaipiNotRunning
    /\ passive = NotRunning
    /\ driver = NotRunning
    /\ mojito = NotRunning
    /\ explainable = {}
    /\ y \in SortedLabellings
    /\ \E examples \in ExampleLists, prop \in PropChoices :
          sub = [ pc |-> "start",
                  examples |-> examples,
                  prop |-> prop,
                  classes |-> << >>,
                  n_sampled_per_class |-> 0,
                  next |-> 1,
                  sample |-> << >> ]

\* caipi.py:66-75  the classes of the problem, the per-class target
SubStart ==
    /\ sub.pc = "start"
    /\ LET classes == SortedSeq({ y[r] : r \in DOMAIN y })
       IN  sub' = [ sub EXCEPT
                      !.classes = classes,
                      !.n_sampled_per_class =
                          n_sampled_per_class(Len(sub.examples), sub.prop,
                                              Len(classes)),
                      !.sample = << >>,
                      !.next = 1,
                      !.pc = "classes" ]
    /\ UNCHANGED << caipi_vars, passive, driver, mojito >>

\* caipi.py:76-79  one class: its members of examples, permuted, the first n
SubClass ==
    /\ sub.pc = "classes"
    /\ sub.next <= Len(sub.classes)
    /\ \E kept \in FirstOfPermutation(
                      examples_of(sub.examples, sub.classes[sub.next]),
                      sub.n_sampled_per_class) :
          sub' = [ sub EXCEPT !.sample = @ \o kept, !.next = @ + 1 ]
    /\ UNCHANGED << caipi_vars, passive, driver, mojito >>

\* caipi.py:81  return list(sample)
SubReturn ==
    /\ sub.pc = "classes"
    /\ sub.next > Len(sub.classes)
    /\ sub' = [ sub EXCEPT !.pc = "return" ]
    /\ UNCHANGED << caipi_vars, passive, driver, mojito >>

NextSubsample ==
    \/ SubStart
    \/ SubClass
    \/ SubReturn

SpecSubsample == InitSubsample /\ [][NextSubsample]_vars

\* --------------------------------------------- eval_interactive (295-335)
\* The folds of StratifiedKFold and the lists _subsample builds from them:
\* a fold trains on rows 1..n and starts with all but the last of them known.
FoldSizes == 2 .. NIdx

InitFolds ==
    /\ passive = NotRunning
    /\ sub = NotRunning
    /\ y \in { f \in [ Examples -> Classes ] : f[0] = 0 }
    \* a fold has one unknown example: its pool is empty or that example
    /\ explainable \in { {}, 1 .. NIdx }
    /\ max_iters \in 0 .. MaxIters
    /\ start_expl_at \in StartExplChoices
    /\ eval_iters \in EvalItersChoices
    /\ train_examples = << >>
    /\ known_examples = << >>
    /\ known0 = << >>
    /\ pc = "not running"
    /\ error = "none"
    /\ t = 0
    /\ cands = {}
    /\ i = -1
    /\ explain = FALSE
    /\ pred_y = -1
    /\ pred_expl = "None"
    /\ true_y = -1
    /\ X_corr = None
    /\ y_corr = None
    /\ X_known = << >>
    /\ y_known = << >>
    /\ balance = << 0, 0 >>
    /\ model = << >>
    /\ perfs = << >>
    /\ params = << >>
    /\ calls = << >>
    /\ mojito = NotRunning
    /\ driver = [ pc |-> "folds", k |-> 0, subsampled |-> << >>,
                  perfs |-> << >>, params |-> << >> ]

\* FoldStart with the known list built once and shared by all folds
FoldStart_shared_known ==
    /\ driver.pc = "folds"
    /\ driver.k < NFolds
    /\ \E n \in FoldSizes :
          /\ train_examples' = Iota(n)
          /\ known_examples' = IF driver.k = 0 THEN Iota(n - 1)
                               ELSE known_examples
          /\ known0' = known_examples'
          /\ driver' = [ driver EXCEPT !.pc = "in caipi",
                                       !.subsampled = Iota(n - 1) ]
    /\ model' = << >>
    /\ pc' = "start"
    /\ t' = 0
    /\ cands' = {}
    /\ i' = -1
    /\ explain' = FALSE
    /\ pred_y' = -1
    /\ pred_expl' = "None"
    /\ true_y' = -1
    /\ X_known' = << >>
    /\ y_known' = << >>
    /\ balance' = << 0, 0 >>
    /\ calls' = << >>
    /\ UNCHANGED << y, explainable, max_iters, start_expl_at, eval_iters,
                    error, X_corr, y_corr, perfs, params, passive, sub,
                    mojito >>

\* caipi.py:305-330  the lists of the fold, a new learner, the call of caipi
\* (its locals are those of a new call; perfs, params, X_corr and y_corr are
\* only bound by lines 231-232)
FoldStart ==
    /\ driver.pc = "folds"
    /\ driver.k < NFolds
    /\ \E n \in FoldSizes :
          /\ train_examples' = Iota(n)
          /\ known_examples' = Iota(n - 1)
          /\ known0' = Iota(n - 1)
          /\ driver' = [ driver EXCEPT !.pc = "in caipi",
                                       !.subsampled = Iota(n - 1) ]
    /\ model' = << >>
    /\ pc' = "start"
    /\ t' = 0
    /\ cands' = {}
    /\ i' = -1
    /\ explain' = FALSE
    /\ pred_y' = -1
    /\ pred_expl' = "None"
    /\ true_y' = -1
    /\ X_known' = << >>
    /\ y_known' = << >>
    /\ balance' = << 0, 0 >>
    /\ calls' = << >>
    /\ UNCHANGED << y, explainable, max_iters, start_expl_at, eval_iters,
                    error, X_corr, y_corr, perfs, params, passive, sub,
                    mojito >>

\* caipi.py:331-335  the traces of the fold join the lists of the run
FoldEnd ==
    /\ driver.pc = "in caipi"
    /\ pc = "return"
    /\ driver' = [ driver EXCEPT !.perfs = Append(@, perfs),
                                 !.params = Append(@, params),
                                 !.k = @ + 1,
                                 !.pc = "folds" ]
    /\ pc' = "not running"
    /\ UNCHANGED << y, explainable, train_examples, known_examples, known0,
                    max_iters, start_expl_at, eval_iters, error, t, cands, i,
                    explain, pred_y, pred_expl, true_y, X_corr, y_corr,
                    X_known, y_known, balance, model, perfs, params, calls,
                    passive, sub, mojito >>

\* An exception of caipi is not caught by eval_interactive.
FoldAbort ==
    /\ driver.pc = "in caipi"
    /\ pc = "aborted"
    /\ driver' = [ driver EXCEPT !.pc = "aborted" ]
    /\ pc' = "not running"
    /\ UNCHANGED << y, explainable, train_examples, known_examples, known0,
                    max_iters, start_expl_at, eval_iters, error, t, cands, i,
                    explain, pred_y, pred_expl, true_y, X_corr, y_corr,
                    X_known, y_known, balance, model, perfs, params, calls,
                    passive, sub, mojito >>

\* caipi.py:305  no fold is left
FoldsDone ==
    /\ driver.pc = "folds"
    /\ driver.k >= NFolds
    /\ driver' = [ driver EXCEPT !.pc = "return" ]
    /\ UNCHANGED << caipi_vars, passive, sub, mojito >>

NextFolds ==
    \/ FoldStart
    \/ FoldEnd
    \/ FoldAbort
    \/ FoldsDone
    \/ InitialFit
    \/ LoopHead
    \/ SelectQuery
    \/ AssertQuery
    \/ Predict
    \/ Explain
    \/ QueryLabel
    \/ QueryCorrections
    \/ Assemble
    \/ Fit
    \/ Eval

SpecFolds == InitFolds /\ [][NextFolds]_vars

TypeOK ==
    /\ pc \in { "start", "for", "select", "assert", "predict", "explain",
                "label", "correct", "assemble", "fit", "eval", "return",
                "aborted", "not running" }
    /\ t \in 0 .. MaxIters
    /\ X_corr.none = y_corr.none
\* ------------------------------------------------- mojito (mojito.py 8-109)
\* learner.select_query(X, Y, candidates) of the active learner: the strategy
\* is opaque, any row of the problem may come back.
mojito_select_query(candidates) == Examples

\* newsgroups.py:109-126  improve_explanation reads the explanation it is
\* given (as_list) and returns it: without one it raises, with one it comes
\* back, unless the oracle fails.
improve_explanation(g) ==
    IF g = "None" THEN { "raises" } ELSE { "raises", g }

\* The loop index after the next step of `for t in range(max_iters)`.
next_t == IF mojito.t.none THEN 0 ELSE mojito.t.val + 1

InitMojito ==
    /\ CaipiNotRunning
    /\ passive = NotRunning
    /\ sub = NotRunning
    /\ driver = NotRunning
    /\ y = [ j \in Examples |-> 0 ]
    /\ explainable = {}
    /\ \E n \in 1 .. NIdx, k \in 1 .. NIdx, m \in 0 .. MaxIters,
          s \in StartExplChoices, improve \in BOOLEAN :
          /\ k <= n
          /\ mojito = [ pc |-> "start",
                        error |-> "none",
                        train_arg |-> Iota(n),
                        known_arg |-> Iota(k),
                        train_at_call |-> Iota(n),
                        known_at_call |-> Iota(k),
                        max_iters |-> m,
                        start_explaining_at |-> s,
                        improve_explanations |-> improve,
                        train_examples |-> << >>,
                        known_examples |-> << >>,
                        learner |-> << >>,
                        trace |-> << >>,
                        explain |-> FALSE,
                        t |-> None,
                        i |-> 0 - 1,
                        g |-> "None",
                        g_bar |-> "None" ]

\* mojito.py:34-60  copies of the two lists, the fit on the training set, the
\* fit on the known examples and the first entry of the trace
MojitoStart ==
    /\ mojito.pc = "start"
    /\ mojito' = [ mojito EXCEPT
                     !.train_examples = mojito.train_arg,
                     !.known_examples = mojito.known_arg,
                     !.learner = mojito.known_arg,
                     !.trace = << mojito.known_arg >>,
                     !.explain = FALSE,
                     !.pc = "for" ]
    /\ UNCHANGED << caipi_vars, passive, sub, driver >>

\* mojito.py:61-65  the for statement: an exhausted range goes to the else
\* clause and leaves t as it is, otherwise t is bound; break when all is known
MojitoLoopHead ==
    /\ mojito.pc = "for"
    /\ mojito' =
          IF next_t >= mojito.max_iters
          THEN [ mojito EXCEPT !.pc = "else" ]
          ELSE IF Len(mojito.known_examples) = Len(mojito.train_examples)
               THEN [ mojito EXCEPT !.t = Some(next_t), !.pc = "return" ]
               ELSE [ mojito EXCEPT
                        !.t = Some(next_t),
                        !.explain = @ \/ (0 <= mojito.start_explaining_at
                                          /\ mojito.start_explaining_at
                                               <= next_t),
                        !.pc = "select" ]
    /\ UNCHANGED << caipi_vars, passive, sub, driver >>

\* mojito.py:68-69  the query is selected among the unknown train examples
MojitoSelectQuery ==
    /\ mojito.pc = "select"
    /\ \E q \in mojito_select_query(Range(mojito.train_examples)
                                      \ Range(mojito.known_examples)) :
          mojito' = [ mojito EXCEPT !.i = q, !.pc = "assert" ]
    /\ UNCHANGED << caipi_vars, passive, sub, driver >>

\* mojito.py:70  assert i in train_examples and i not in known_examples
MojitoAssert ==
    /\ mojito.pc = "assert"
    /\ mojito' =
          IF /\ mojito.i \in Range(mojito.train_examples)
             /\ mojito.i \notin Range(mojito.known_examples)
          THEN [ mojito EXCEPT !.pc = "explain" ]
          ELSE [ mojito EXCEPT !.pc = "aborted",
                               !.error = "AssertionError" ]
    /\ UNCHANGED << caipi_vars, passive, sub, driver >>

\* mojito.py:73-78  prediction, and an explanation once explain is set
MojitoExplain ==
    /\ mojito.pc = "explain"
    /\ mojito' = [ mojito EXCEPT
                     !.g = IF mojito.explain THEN "explanation" ELSE "None",
                     !.pc = "improve" ]
    /\ UNCHANGED << caipi_vars, passive, sub, driver >>

\* mojito.py:81-83  the label of the oracle, and its explanation when
\* improve_explanations is set
MojitoImprove ==
    /\ mojito.pc = "improve"
    /\ IF ~mojito.improve_explanations
       THEN mojito' = [ mojito EXCEPT !.g_bar = "None", !.pc = "update" ]
       ELSE \E r \in improve_explanation(mojito.g) :
               mojito' = IF r = "raises"
                         THEN [ mojito EXCEPT !.pc = "aborted",
                                              !.error = "Exception" ]
                         ELSE [ mojito EXCEPT !.g_bar = r, !.pc = "update" ]
    /\ UNCHANGED << caipi_vars, passive, sub, driver >>

\* mojito.py:87-94  the query joins the known examples, the learner is refitted
MojitoUpdate ==
    /\ mojito.pc = "update"
    /\ mojito' = [ mojito EXCEPT
                     !.known_examples = Append(@, mojito.i),
                     !.learner = Append(mojito.known_examples, mojito.i),
                     !.pc = "record" ]
    /\ UNCHANGED << caipi_vars, passive, sub, driver >>

\* mojito.py:95-105  quit() after an oracle explanation, otherwise the
\* performance of the refitted model joins the trace
MojitoRecord ==
    /\ mojito.pc = "record"
    /\ mojito' =
          IF mojito.g_bar # "None"
          THEN [ mojito EXCEPT !.pc = "aborted", !.error = "SystemExit" ]
          ELSE [ mojito EXCEPT !.trace = Append(@, mojito.learner),
                               !.pc = "for" ]
    /\ UNCHANGED << caipi_vars, passive, sub, driver >>

\* mojito.py:106-109  the else clause of the loop formats t, which is bound
\* only if the loop body was entered; then the trace is returned
MojitoElse ==
    /\ mojito.pc = "else"
    /\ mojito' =
          IF mojito.t.none
          THEN [ mojito EXCEPT !.pc = "aborted",
                               !.error = "UnboundLocalError" ]
          ELSE [ mojito EXCEPT !.pc = "return" ]
    /\ UNCHANGED << caipi_vars, passive, sub, driver >>

NextMojito ==
    \/ MojitoStart
    \/ MojitoLoopHead
    \/ MojitoSelectQuery
    \/ MojitoAssert
    \/ MojitoExplain
    \/ MojitoImprove
    \/ MojitoUpdate
    \/ MojitoRecord
    \/ MojitoElse

SpecMojito == InitMojito /\ [][NextMojito]_vars


\* ------------------------------------------------------------ properties
Terminated == pc \in { "return", "aborted" }

\* Positions of a round after known_examples.append(i).
AfterAppend == { "correct", "assemble", "fit", "eval" }

Called(name) == name \in Range(calls)

\* C1: no index appears twice in known_examples at any point, and every
\* completed round has added exactly one index: at a round boundary the list
\* is its initial length plus the number of completed rounds, inside a round
\* it is one longer once the append has run.
C1_KnownGrowsByOnePerRound ==
    /\ NoDup(known_examples)
    /\ pc \in { "for", "return", "select", "assert", "predict", "explain",
                "label" } => Len(known_examples) = Len(known0) + t
    /\ pc \in AfterAppend => Len(known_examples) = Len(known0) + t + 1
    /\ pc \in { "for", "return" } => Len(perfs) = t

C1_Witness ==
    pc = "return" /\ t = 2 /\ Len(known_examples) = Len(known0) + 2

\* C2: in a round that gets past the check of line 240 the selected index is
\* in train_examples and was not in known_examples when it was selected,
\* whatever select_query returned; the index predicted on, labelled and
\* appended is that index and no other.
C2_QueryIsUnknownTrainExample ==
    /\ pc \in { "predict", "explain", "label" } =>
          /\ i \in Range(train_examples)
          /\ i \notin Range(known_examples)
    /\ pc \in AfterAppend =>
          /\ i \in Range(train_examples)
          /\ known_examples[Len(known_examples)] = i
          /\ i \notin Range(SubSeq(known_examples, 1, Len(known_examples) - 1))
          /\ true_y = y[i]

C2_Witness ==
    pc = "correct" /\ t = 1 /\ i \notin cands

\* Progress measure of a run: the round, then the position inside the round;
\* a run that has returned or aborted is past every position.
PcRank ==
    [ p \in { "start", "for", "select", "assert", "predict", "explain",
              "label", "correct", "assemble", "fit", "eval" } |->
        CASE p = "start" -> 0
          [] p = "for" -> 1
          [] p = "select" -> 2
          [] p = "assert" -> 3
          [] p = "predict" -> 4
          [] p = "explain" -> 5
          [] p = "label" -> 6
          [] p = "correct" -> 7
          [] p = "assemble" -> 8
          [] p = "fit" -> 9
          [] p = "eval" -> 10 ]

Rank == IF Terminated THEN 11 * (max_iters + 1) ELSE 11 * t + PcRank[pc]

\* C3: the loop runs at most max_iters rounds, starts no round once
\* known_examples covers train_examples, and returns with one of the two
\* limits reached; every run ends: a run that has neither returned nor
\* aborted can always take a step, and every step moves it strictly forward
\* in a measure bounded by max_iters.
C3_Terminates ==
    /\ [](/\ t <= max_iters
          /\ Len(perfs) <= max_iters
          /\ Rank <= 11 * (max_iters + 1)
          /\ pc \notin { "start", "for", "return", "aborted" } =>
                /\ t < max_iters
                /\ Len(known0) + t < Len(train_examples)
          /\ pc = "return" =>
                \/ t = max_iters
                \/ Range(known_examples) = Range(train_examples)
          /\ Terminated \/ ENABLED Next)
    /\ [][ Rank' > Rank ]_vars

C3_Witness ==
    pc = "return" /\ 0 < t /\ t < max_iters
        /\ Range(known_examples) = Range(train_examples)

\* C4: when the explainable candidate pool is empty while unknown examples
\* remain, the selection yields a member of the unknown set and the round
\* goes on.
C4_EmptyPoolStillSelects ==
    (calls = << "select_query" >> /\ cands = {}) =>
        /\ pc # "aborted"
        /\ i \in unknown_examples(train_examples, known_examples)

\* C5 as stated: a round is only carried on with an index of the candidate
\* pool handed to select_query.
C5_Original_PoolMembershipEnforced ==
    pc \in { "predict", "explain", "label" } => i \in cands

\* C5 amended: an index that is not in train_examples or is already in
\* known_examples aborts the run at the check of line 240, in that round and
\* with nothing of the round carried out; an unknown training example outside
\* problem.explainable passes the check.
C5_IllegalQueryAborts ==
    /\ [][ pc = "assert" =>
             IF i \in Range(train_examples) /\ i \notin Range(known_examples)
             THEN pc' = "predict"
             ELSE /\ pc' = "aborted"
                  /\ error' = "AssertionError"
                  /\ UNCHANGED << known_examples, X_corr, y_corr, perfs,
                                  params, model, calls, t >> ]_vars
    /\ [](error = "AssertionError" =>
             /\ pc = "aborted"
             /\ calls = << "select_query" >>
             /\ ~(i \in Range(train_examples) /\ i \notin Range(known_examples)))

C5_Witness ==
    pc = "aborted" /\ error = "AssertionError" /\ t = 1
        /\ i \in Range(known_examples)

\* C6: known_examples stays inside train_examples and is append-only: the
\* caller's list is a prefix of it, and every step leaves the old contents
\* as a prefix of the new.
C6_KnownSubsetAppendOnly ==
    /\ [](/\ Range(known_examples) \subseteq Range(train_examples)
          /\ IsPrefix(known0, known_examples))
    /\ [][ IsPrefix(known_examples, known_examples') ]_vars

C6_Witness ==
    pc = "return" /\ Len(known_examples) = Len(known0) + 2
        /\ known_examples[Len(known_examples)] < known_examples[Len(known_examples) - 1]

\* C7: with start_expl_at = -1 explain and query_corrections are never
\* called, X_corr and y_corr stay None, every performance record counts 0
\* corrections and every fit is on the rows of known_examples only.
C7_NoExplanationsWhenDisabled ==
    start_expl_at = -1 =>
        /\ ~Called("explain")
        /\ ~Called("query_corrections")
        /\ ~explain
        /\ pred_expl = "None"
        /\ X_corr = None
        /\ y_corr = None
        /\ \A j \in 1 .. Len(perfs) : perfs[j].n_corrections = 0
        /\ \A j \in 1 .. Len(params) :
              params[j] = SubSeq(known_examples, 1, Len(known0) + j)
        /\ pc # "start" => IsPrefix(model, known_examples)

C7_Witness ==
    start_expl_at = -1 /\ pc = "return" /\ Len(params) = 2

\* C8: in a round that gets past the selection check, explain and
\* query_corrections are called exactly when start_expl_at >= 0 and
\* t >= start_expl_at (round 0 included when start_expl_at = 0).
C8_ExplainIffGateOpen ==
    LET gate(round) == start_expl_at >= 0 /\ round >= start_expl_at
    IN  /\ pc \in { "label" } \cup AfterAppend => (Called("explain") <=> gate(t))
        /\ pc \in { "assemble", "fit", "eval" } =>
              (Called("query_corrections") <=> gate(t))
        /\ pc \in { "for", "return", "select" } /\ t > 0 =>
              /\ Called("explain") <=> gate(t - 1)
              /\ Called("query_corrections") <=> gate(t - 1)
        /\ pc \in { "assert", "predict", "explain" } =>
              ~Called("explain") /\ ~Called("query_corrections")
        /\ pc \in { "label", "correct" } => ~Called("query_corrections")

C8_Witness ==
    start_expl_at = 0 /\ t = 0 /\ pc = "assemble"
        /\ Called("explain") /\ Called("query_corrections")

\* C9: a declared class with zero count in the assembled labels never makes
\* the balance computation raise: the round goes on to fit, eval and the
\* trace append.
C9_BalanceNeverRaises ==
    error # "FloatingPointError"

\* C10: whenever the balance of a round has been computed and some declared
\* class has a positive count, the ratio has a value and it is >= 1.
C10_BalanceAtLeastOne ==
    (pc \in { "fit", "eval" } \/ (pc = "aborted" /\ Called("query_label"))) =>
        ((\E c \in per_class(y_known) : c > 0) =>
            /\ error = "none"
            /\ balance[2] > 0
            /\ balance[1] >= balance[2])

\* Number of correction labels held, read off the accumulator itself.
CorrCount == IF y_corr.none THEN 0 ELSE Len(y_corr.val)

\* C11: the number of correction labels never decreases, the counts recorded
\* in the performance trace never decrease from one round to the next, and
\* the record appended in round t carries t and the number of correction
\* labels held at the end of round t (0 while the accumulator is None).
C11_CorrectionCountRecorded ==
    /\ [](\A j \in 1 .. Len(perfs) - 1 :
              perfs[j].n_corrections <= perfs[j + 1].n_corrections)
    /\ [][ /\ CorrCount' >= CorrCount
           /\ ~y_corr.none => ~y_corr'.none
           /\ pc = "eval" =>
                 /\ Len(perfs') = Len(perfs) + 1
                 /\ perfs'[Len(perfs')].t = t
                 /\ perfs'[Len(perfs')].n_corrections = CorrCount
                 /\ UNCHANGED << X_corr, y_corr >>
           /\ pc # "eval" => perfs' = perfs ]_vars

C11_Witness ==
    /\ pc = "return"
    /\ Len(perfs) = 2
    /\ perfs[1].n_corrections = 0
    /\ perfs[2].n_corrections = 1

\* Number of calls of a collaborator in the current round.
CallCount(name) == Cardinality({ j \in 1 .. Len(calls) : calls[j] = name })

\* C12: every completed round t has exactly one eval call and one
\* performance record, and that call was given eval_examples exactly when
\* t % eval_iters = 0, whatever start_expl_at is.
C12_EvalCadence ==
    /\ \A j \in 1 .. Len(perfs) :
          /\ perfs[j].t = j - 1
          /\ perfs[j].eval <=> ((j - 1) % eval_iters = 0)
    /\ pc \in { "for", "return", "select" } =>
          /\ Len(perfs) = t
          /\ t > 0 => CallCount("eval") = 1
    /\ pc \notin { "for", "return", "select", "start" } =>
          CallCount("eval") = 0

C12_Witness ==
    /\ pc = "return"
    /\ eval_iters = 2
    /\ start_expl_at = 0
    /\ Len(perfs) = 2
    /\ perfs[1].eval
    /\ ~perfs[2].eval

\* C13: with max_iters = 0 no round runs: no collaborator of the loop is
\* called, known_examples is the caller's list and both traces are empty.
C13_ZeroItersZeroRounds ==
    max_iters = 0 =>
        /\ pc \in { "start", "for", "return" }
        /\ calls = << >>
        /\ known_examples = known0
        /\ perfs = << >>
        /\ params = << >>
        /\ X_corr = None /\ y_corr = None
        /\ error = "none"

C13_Witness ==
    max_iters = 0 /\ pc = "return" /\ Len(known0) < Len(train_examples)

\* C14: when known_examples already covers train_examples at the start, the
\* loop breaks in round 0 before any query, for every max_iters: no call,
\* known_examples unchanged, both traces empty.
C14_FullyKnownNoQuery ==
    Range(known0) = Range(train_examples) =>
        /\ pc \in { "start", "for", "return" }
        /\ t = 0
        /\ calls = << >>
        /\ known_examples = known0
        /\ perfs = << >>
        /\ params = << >>
        /\ error = "none"

C14_Witness ==
    /\ Range(known0) = Range(train_examples)
    /\ max_iters = MaxIters
    /\ pc = "return"

\* The calls of a completed round t, in the order of the loop body.
RoundCalls(round) ==
    LET gate == start_expl_at >= 0 /\ round >= start_expl_at
    IN  << "select_query", "predict" >>
            \o (IF gate THEN << "explain" >> ELSE << >>)
            \o << "query_label" >>
            \o (IF gate THEN << "query_corrections" >> ELSE << >>)
            \o << "fit", "eval" >>

\* C15: the calls of a round are a prefix of select_query, predict, explain
\* (if gated in), query_label, query_corrections (if gated in), fit, eval,
\* and the whole of it once the round is complete; explain runs while the
\* selected index is not yet in known_examples, query_corrections, fit and
\* eval run after it has been appended; a new round only starts from a
\* round boundary.
C15_CallOrder ==
    /\ [](/\ pc \in { "for", "return", "select" } /\ t > 0 =>
                calls = RoundCalls(t - 1)
          /\ pc \in { "for", "return", "select", "start" } /\ t = 0 =>
                calls = << >>
          /\ pc \notin { "for", "return", "select", "start" } =>
                IsPrefix(calls, RoundCalls(t))
          /\ Called("query_label") /\ pc \notin { "for", "return", "select" } =>
                known_examples[Len(known_examples)] = i)
    /\ [][ /\ (~Called("explain") /\ Called("explain")') =>
                 /\ i \notin Range(known_examples)
                 /\ known_examples' = known_examples
           /\ Len(calls') > Len(calls) /\ calls'[Len(calls')]
                    \in { "query_corrections", "fit", "eval" } =>
                 known_examples[Len(known_examples)] = i
           /\ calls' # calls /\ calls'[1] = "select_query" /\ Len(calls') = 1 =>
                 (calls = << >> \/ calls[Len(calls)] = "eval") ]_vars

C15_Witness ==
    /\ pc = "for"
    /\ t = 2
    /\ start_expl_at = 1
    /\ calls = << "select_query", "predict", "explain", "query_label",
                  "query_corrections", "fit", "eval" >>

\* C19: the correction accumulator always has as many rows as labels; the
\* dataset handed to fit is the correction rows followed by the rows of
\* known_examples, the example queried in this round last, with one label
\* per row: corrections + len(known_examples) of each.
C19_FitDataset ==
    /\ X_corr.none = y_corr.none
    /\ Len(X_corr.val) = Len(y_corr.val)
    /\ pc \in { "fit", "eval" } =>
          /\ X_known = X_corr.val \o known_examples
          /\ y_known = y_corr.val
                \o [ j \in 1 .. Len(known_examples) |-> y[known_examples[j]] ]
          /\ Len(X_known) = CorrCount + Len(known_examples)
          /\ Len(y_known) = Len(X_known)
          /\ X_known[Len(X_known)] = i
    /\ pc = "eval" => model = X_known /\ params[Len(params)] = X_known

C19_Witness ==
    pc = "eval" /\ CorrCount = 2 /\ Len(known_examples) = 3

\* C20: a failed selection check ends the run on the spot: no call of the
\* round besides select_query has been made, known_examples, the correction
\* accumulator and both traces are as the previous round left them, and no
\* step follows.
C20_FailedCheckNoEffect ==
    error = "AssertionError" =>
        /\ pc = "aborted"
        /\ ~ENABLED Next
        /\ calls = << "select_query" >>
        /\ Len(known_examples) = Len(known0) + t
        /\ Len(perfs) = t
        /\ Len(params) = t
        /\ model = (IF t = 0 THEN known0 ELSE params[t])
        /\ (t > 0 => /\ perfs[t].n_corrections = CorrCount
                     /\ model = X_corr.val \o known_examples)
        /\ (t = 0 => X_corr = None /\ y_corr = None)

C20_Witness ==
    /\ error = "AssertionError"
    /\ t = 1
    /\ CorrCount = 1
    /\ i = 0

\* The rows of known_examples at the end of a parameter entry: the dataset of
\* a fit ends with the known examples of its round.
KnownRowsOf(entry, n) ==
    IF Len(entry) < n THEN << >>
    ELSE SubSeq(entry, Len(entry) - n + 1, Len(entry))

\* C21: at every round boundary and at return the performance trace and the
\* parameter trace have the same length, the number of indices appended to
\* known_examples since the start, which is the number of completed rounds;
\* entry j of either trace is the one of round j: its performance record
\* carries loop index j - 1 and its parameters are those of the fit on the
\* known examples up to the one queried in round j.
C21_TracesMatchRounds ==
    pc \in { "for", "select", "return" } =>
        /\ Len(perfs) = Len(params)
        /\ Len(perfs) = Len(known_examples) - Len(known0)
        /\ Len(perfs) = t
        /\ \A j \in 1 .. Len(perfs) :
              /\ perfs[j].t = j - 1
              /\ KnownRowsOf(params[j], Len(known0) + j)
                    = SubSeq(known_examples, 1, Len(known0) + j)

C21_Witness ==
    /\ pc = "return"
    /\ Len(known0) = 1
    /\ Len(known_examples) = 3
    /\ Len(perfs) = 2
    /\ eval_iters = 2
    /\ CorrCount = 1

\* The corrections collected by eval_passive are all labelled alike.
PassiveDegenerate ==
    /\ ~passive.y_corr.none
    /\ passive.y_corr.val # << >>
    /\ \A j, k \in 1 .. Len(passive.y_corr.val) :
          passive.y_corr.val[j] = passive.y_corr.val[k]

\* C16: when all collected correction labels are identical, eval_passive
\* makes no fit and no eval on the corrections alone and leaves corr_params
\* None; it does not abort, and goes on to the train+corrections fit, its
\* evaluation and the dump.
C16_DegenerateCorrectionsSkipped ==
    (passive.pc \in { "train+corr", "dump", "return", "aborted" }
        /\ PassiveDegenerate) =>
        /\ passive.pc # "aborted"
        /\ passive.corr_params = "None"
        /\ passive.learner # "corr"
        /\ \A j \in 1 .. Len(passive.evals) : passive.evals[j][1] # "corr"
        /\ passive.pc \in { "dump", "return" } =>
              /\ passive.learner = "train+corr"
              /\ passive.evals[Len(passive.evals)]
                    = << "train+corr", "train+corr" >>
        /\ passive.pc = "return" =>
              passive.dumped = << [ w_train |-> "train",
                                    w_corr |-> "None",
                                    w_both |-> "train+corr" ] >>
        /\ passive.pc # "return" => ENABLED NextPassive

C16_Witness ==
    /\ passive.pc = "return"
    /\ PassiveDegenerate
    /\ Len(passive.y_corr.val) = 2
    /\ passive.dumped # << >>

\* Number of returned indices of a class, and of its members in examples.
SampledOf(label) ==
    Cardinality({ j \in 1 .. Len(sub.sample) : y[sub.sample[j]] = label })

MembersOf(label) ==
    Cardinality({ j \in 1 .. Len(sub.examples) : y[sub.examples[j]] = label })

\* The models a correction collection may work with after each way the
\* explanation-as-document path can end.
ModelsLeftBy(outcome) ==
    IF outcome = "failed before fit" THEN { "train" }
    ELSE IF outcome = "failed in fit" THEN { "train", "docs" }
    ELSE IF outcome \in { "failed in eval", "ok" } THEN { "docs" }
    ELSE {}

\* C22: whatever fails inside the explanation-as-document path, eval_passive
\* goes on to the correction collection without an error; every predict and
\* explain of the collection uses the one model the last fit left: the model
\* of the explanation documents when the fit of the path was done (the path
\* succeeded or failed after it), the model of the full training set when
\* the path failed before its fit; a fit that itself raised leaves one of
\* the two, and the model of the training set is used in no other case.
C22_DocFailureSwallowed ==
    /\ passive.pc \in { "collect", "correcting" } =>
          /\ passive.error = "none"
          /\ passive.docs \in DocOutcomes
          /\ passive.learner \in ModelsLeftBy(passive.docs)
          /\ passive.used \subseteq { passive.learner }
          /\ ENABLED NextPassive
    /\ passive.pc # "not running" =>
          /\ passive.used \subseteq ModelsLeftBy(passive.docs)
          /\ Cardinality(passive.used) <= 1
          /\ "train" \in passive.used =>
                passive.docs \in { "failed before fit", "failed in fit" }
          /\ passive.pc = "aborted" => passive.error = "ValueError"

C22_Witness ==
    /\ passive.pc = "return"
    /\ passive.docs = "failed in eval"
    /\ passive.used = { "docs" }
    /\ Len(passive.evals) = 4

\* C17 as stated: the result holds at least 3 indices of every class of the
\* problem.
C17_Original_ThreePerClass ==
    sub.pc = "return" =>
        \A j \in 1 .. Len(sub.classes) : SampledOf(sub.classes[j]) >= 3

\* C17 amended: the per-class target n is at least 3 and the result holds,
\* for every class of the problem, min(n, members of that class in examples)
\* indices of that class, class after class in sorted order, hence at least 3
\* only for a class with at least 3 members in examples; every returned
\* index belongs to examples and none is returned twice.
C17_SubsamplePerClass ==
    sub.pc = "return" =>
        /\ sub.n_sampled_per_class >= 3
        /\ \A j \in 1 .. Len(sub.classes) :
              /\ SampledOf(sub.classes[j])
                    = Min2(sub.n_sampled_per_class, MembersOf(sub.classes[j]))
              /\ MembersOf(sub.classes[j]) >= 3 => SampledOf(sub.classes[j]) >= 3
        /\ Range(sub.sample) \subseteq Range(sub.examples)
        /\ NoDup(sub.sample)
        /\ \A j, k \in 1 .. Len(sub.sample) :
              j <= k => y[sub.sample[j]] <= y[sub.sample[k]]

C17_Witness ==
    /\ sub.pc = "return"
    /\ Len(sub.classes) = 2
    /\ sub.n_sampled_per_class = 3
    /\ MembersOf(0) = 4 /\ SampledOf(0) = 3
    /\ MembersOf(1) = 2 /\ SampledOf(1) = 2
    /\ sub.sample[1] > sub.sample[2]

\* C18: every fold enters caipi with the list _subsample has just built for
\* it, a new learner and nothing left of an earlier fold; once the fit and
\* the assignments of lines 226-232 have run, the accumulator and both traces
\* are empty and the learner is fitted on the fold's own known examples; the
\* traces already collected from earlier folds are never changed by a later
\* fold.
C18_FoldsShareNoRunState ==
    /\ [](/\ (driver.pc = "in caipi" /\ pc = "start") =>
                /\ known_examples = driver.subsampled
                /\ Range(known_examples) \subseteq Range(train_examples)
                /\ NoDup(known_examples)
                /\ Len(known_examples) = Len(train_examples) - 1
                /\ model = << >>
                /\ t = 0
                /\ calls = << >>
          /\ (driver.pc = "in caipi" /\ pc = "for" /\ t = 0) =>
                /\ known_examples = driver.subsampled
                /\ model = driver.subsampled
                /\ X_corr = None
                /\ y_corr = None
                /\ perfs = << >>
                /\ params = << >>
          /\ Len(driver.perfs) = driver.k
          /\ Len(driver.params) = driver.k)
    /\ [][ /\ IsPrefix(driver.perfs, driver.perfs')
           /\ IsPrefix(driver.params, driver.params')
           /\ (driver.pc = "in caipi" /\ driver'.pc = "folds") =>
                 /\ driver'.perfs = Append(driver.perfs, perfs)
                 /\ driver'.params = Append(driver.params, params) ]_vars

\* The second fold starts after a first fold that appended an index and
\* collected a correction.
C18_Witness ==
    /\ driver.pc = "in caipi"
    /\ driver.k = 1
    /\ pc = "for"
    /\ t = 0
    /\ Len(driver.perfs[1]) = 1
    /\ driver.perfs[1][1].n_corrections = 1
    /\ Len(driver.params[1][1]) = Len(known_examples) + 2

\* The rounds mojito is to complete: min(max_iters, #train - #known).
MojitoRounds ==
    Min2(mojito.max_iters,
         Len(mojito.train_at_call) - Len(mojito.known_at_call))

\* mojito has ended: it returned or an exception left it.
MojitoEnded == mojito.pc \in { "return", "aborted" }

\* C23: with improve_explanations = False and a strategy that selects
\* unknown train examples, mojito ends by returning, for every
\* max_iters >= 0, a trace of 1 + min(max_iters, #train - #known) entries,
\* the first one of the model fitted on the known examples as passed, then
\* one per round; the lists of the caller are as they were at the call.
C23_TraceOnePlusRounds ==
    /\ (mojito.pc # "not running") =>
          /\ mojito.train_arg = mojito.train_at_call
          /\ mojito.known_arg = mojito.known_at_call
    /\ ( /\ MojitoEnded
         /\ ~mojito.improve_explanations
         /\ mojito.error # "AssertionError" ) =>
          /\ mojito.pc = "return"
          /\ Len(mojito.trace) = 1 + MojitoRounds
          /\ \A j \in 1 .. Len(mojito.trace) :
                mojito.trace[j]
                  = SubSeq(mojito.known_examples, 1,
                           Len(mojito.known_at_call) + j - 1)

\* The part of C23 that the code keeps: whenever the loop is given at least
\* one iteration.
MojitoTraceWhenIterating ==
    ( /\ MojitoEnded
      /\ ~mojito.improve_explanations
      /\ mojito.max_iters >= 1
      /\ mojito.error # "AssertionError" ) =>
         /\ mojito.pc = "return"
         /\ Len(mojito.trace) = 1 + MojitoRounds

====
